---- MODULE Spec2Model ----
(***************************************************************************)
(* Model of src/app.py: the personality prediction service.               *)
(*                                                                         *)
(* The module-level code loads two artifacts (classifier, label encoder)   *)
(* into the globals loaded_model and loaded_le_personality, creates the    *)
(* Flask app and starts serving.  Two handlers exist: home (GET /) and     *)
(* predict (POST /predict).  One request is in flight at a time: the       *)
(* client composes a body, a handler answers it, the client takes the      *)
(* response.  The handlers share nothing but the two globals.              *)
(***************************************************************************)
EXTENDS Integers, Sequences, FiniteSets, TLC

VARIABLES
    pc,                     \* position of the module-level code
    loader_runs,            \* times the try block of lines 20-31 was entered
    loaded_model,           \* global of line 17
    loaded_le_personality,  \* global of line 18
    request,                \* body of the POST request being composed / handled
    route,                  \* the route of the request just handled, "" when none
    response,               \* the response of the request just handled
    trace                   \* what the handler did: classifier and encoder calls

vars == <<pc, loader_runs, loaded_model, loaded_le_personality, request, route, response, trace>>

----------------------------------------------------------------------------
(* Bounds of the model                                                     *)

\* most key/value pairs in a request body
MaxKeys == 2

----------------------------------------------------------------------------
(* Python values: None, str, int and the float NaN, as one record shape    *)

None == [t |-> "None", s |-> <<>>, n |-> 0]
NaN == [t |-> "NaN", s |-> <<>>, n |-> 0]
PyStr(chars) == [t |-> "str", s |-> chars, n |-> 0]
PyInt(i) == [t |-> "int", s |-> <<>>, n |-> i]

Digits == <<"0", "1", "2", "3", "4", "5", "6", "7", "8", "9">>

IsDigit(c) == \E d \in 1..Len(Digits) : Digits[d] = c

DigitValue(c) == (CHOOSE d \in 1..Len(Digits) : Digits[d] = c) - 1

\* str(int) of a non-negative int
RECURSIVE IntToStr(_)
IntToStr(i) ==
    IF i < Len(Digits) THEN <<Digits[i + 1]>>
    ELSE IntToStr(i \div Len(Digits)) \o <<Digits[(i % Len(Digits)) + 1]>>

\* the number a string of decimal digits denotes
RECURSIVE DigitsToInt(_)
DigitsToInt(chars) ==
    IF chars = <<>> THEN 0
    ELSE DigitsToInt(SubSeq(chars, 1, Len(chars) - 1)) * Len(Digits)
         + DigitValue(chars[Len(chars)])

\* str.lower() of one character
LowerChar(c) ==
    CASE c = "Y" -> "y"
      [] c = "E" -> "e"
      [] c = "S" -> "s"
      [] c = "N" -> "n"
      [] c = "O" -> "o"
      [] OTHER -> c

\* str.lower()
lower(chars) == [i \in 1..Len(chars) |-> LowerChar(chars[i])]

\* str(x), what Series.astype(str) applies to each cell
astype_str(cell) ==
    CASE cell.t = "str" -> cell.s
      [] cell.t = "int" -> IntToStr(cell.n)
      [] cell.t = "NaN" -> <<"n", "a", "n">>
      [] OTHER -> <<"N", "o", "n", "e">>

----------------------------------------------------------------------------
(* Results of a computation that may raise                                 *)

Ok(v) == [exc |-> "", val |-> v]
Raise(e) == [exc |-> e, val |-> <<>>]
Raised(r) == r.exc # ""

----------------------------------------------------------------------------
(* The request: the body of a POST /predict, as the client sent it          *)

\* lines 94-102 had two neighbouring names changed places
expected_feature_order_swapped ==
    << "Time_spent_Alone",
       "Social_event_attendance",
       "Stage_fear",
       "Going_outside",
       "Drained_after_socializing",
       "Friends_circle_size",
       "Post_frequency" >>

\* lines 94-102
expected_feature_order ==
    << "Time_spent_Alone",
       "Stage_fear",
       "Social_event_attendance",
       "Going_outside",
       "Drained_after_socializing",
       "Friends_circle_size",
       "Post_frequency" >>

categorical_cols == <<"Stage_fear", "Drained_after_socializing">>

numeric_cols ==
    << "Time_spent_Alone", "Social_event_attendance", "Going_outside",
       "Friends_circle_size", "Post_frequency" >>

Range(seq) == {seq[i] : i \in 1..Len(seq)}

\* a key the service does not expect
ExtraKey == "Age"

Keys == Range(expected_feature_order) \cup {ExtraKey}

yes == <<"y", "e", "s">>

\* the JSON values a client sends under a key
ValuesFor(k) ==
    IF k \in Range(categorical_cols)
    THEN { None, PyStr(yes), PyStr(<<"Y", "E", "S">>), PyStr(<<"Y", "e", "s">>),
           PyStr(<<"N", "o">>), PyInt(7) }
    ELSE IF k \in Range(numeric_cols)
    THEN { None, PyStr(<<"1", "2">>), PyStr(<<"N", "o">>), PyInt(7) }
    ELSE { PyStr(yes), PyInt(7) }

Pairs == UNION { {[k |-> key, v |-> val] : val \in ValuesFor(key)} : key \in Keys }

\* what the body is: a JSON object (its pairs in the order sent), another JSON
\* value, text that is not JSON, or nothing
BodyKinds == {"object", "array", "string", "number", "boolean", "null", "malformed", "empty"}

\* the request a client has written no body for yet
NewRequest == [kind |-> "empty", pairs |-> <<>>]

----------------------------------------------------------------------------
(* Responses                                                               *)

HTTP_OK == 200
HTTP_INTERNAL_SERVER_ERROR == 500

NoResponse == [status |-> 0, key |-> "", text |-> ""]

\* jsonify({key: text}), status
Json(status, key, text) == [status |-> status, key |-> key, text |-> text]

UnavailableMessage == "Prediction service unavailable: Model not loaded on server."

InternalErrorPrefix == "An internal server error occurred during prediction: "

NoTrace == [predict_calls |-> 0, X |-> <<>>, inverse_calls |-> 0]

----------------------------------------------------------------------------
(* A one-row DataFrame: its columns in order, each a name and the row's cell *)

HasColumn(df, col) == \E i \in 1..Len(df) : df[i].name = col

Column(df, col) == df[CHOOSE i \in 1..Len(df) : df[i].name = col].cell

\* input_df[col] = cell: in place when the column exists, appended otherwise
SetColumn(df, col, cell) ==
    IF HasColumn(df, col)
    THEN [i \in 1..Len(df) |-> IF df[i].name = col THEN [name |-> col, cell |-> cell] ELSE df[i]]
    ELSE Append(df, [name |-> col, cell |-> cell])

\* input_df[order]: the columns named, in that order; KeyError when one is absent
SelectColumns(df, order) ==
    IF \A i \in 1..Len(order) : HasColumn(df, order[i])
    THEN Ok([i \in 1..Len(order) |-> [name |-> order[i], cell |-> Column(df, order[i])]])
    ELSE Raise("KeyError")

----------------------------------------------------------------------------
(* predict, lines 91-119: from the request to the feature vector          *)

\* request.get_json(force=True): the parsed body, whatever the content type;
\* a body that is not JSON raises BadRequest
get_json(req) ==
    CASE req.kind \in {"malformed", "empty"} -> Raise("BadRequest")
      [] req.kind = "object" -> Ok([type |-> "dict", items |-> req.pairs])
      [] req.kind = "array" -> Ok([type |-> "list", items |-> <<>>])
      [] req.kind = "string" -> Ok([type |-> "str", items |-> <<>>])
      [] req.kind = "number" -> Ok([type |-> "int", items |-> <<>>])
      [] req.kind = "boolean" -> Ok([type |-> "bool", items |-> <<>>])
      [] OTHER -> Ok([type |-> "NoneType", items |-> <<>>])

\* dict.get(key): the value of the last pair with that key (json.loads keeps
\* the last of duplicate keys), None when there is none
DictGet(items, key) ==
    LET at == {i \in 1..Len(items) : items[i].k = key}
    IN  IF at = {} THEN None
        ELSE items[CHOOSE i \in at : \A j \in at : j <= i].v

\* line 104 had it read request_data[feature]: a key that is not there raises
input_features_dict_subscript(request_data) ==
    IF request_data.type # "dict" THEN Raise("TypeError")
    ELSE IF \E i \in 1..Len(expected_feature_order) :
                \A j \in 1..Len(request_data.items) :
                    request_data.items[j].k # expected_feature_order[i]
    THEN Raise("KeyError")
    ELSE Ok([i \in 1..Len(expected_feature_order) |->
                [name |-> expected_feature_order[i],
                 cell |-> DictGet(request_data.items, expected_feature_order[i])]])

\* line 104: {feature: request_data.get(feature) for feature in expected_feature_order}
\* only a dict has .get
input_features_dict(request_data) ==
    IF request_data.type = "dict"
    THEN Ok([i \in 1..Len(expected_feature_order) |->
                [name |-> expected_feature_order[i],
                 cell |-> DictGet(request_data.items, expected_feature_order[i])]])
    ELSE Raise("AttributeError")

\* line 105: pd.DataFrame([input_features_dict]): one column per key, in the
\* dict's order
DataFrame(dict) == dict

\* yes_to_int had the lambda compared x itself: 1 if x == 'yes' else 0
yes_to_int_case_sensitive(x) == IF x = yes THEN 1 ELSE 0

\* line 109: lambda x: 1 if x.lower() == 'yes' else 0
yes_to_int(x) == IF lower(x) = yes THEN 1 ELSE 0

\* lines 108-111: one pass of the loop over the categorical columns
CategoricalStep(df, col) ==
    IF HasColumn(df, col) /\ Column(df, col) # None
    THEN SetColumn(df, col, PyInt(yes_to_int(astype_str(Column(df, col)))))
    ELSE SetColumn(df, col, PyInt(0))

\* the text pd.to_numeric reads as a number: decimal digits
IsNumericText(chars) == chars # <<>> /\ \A i \in 1..Len(chars) : IsDigit(chars[i])

\* pd_to_numeric had the call been made with errors='raise'
pd_to_numeric_raising(cell) ==
    CASE cell.t = "int" -> Ok(cell)
      [] cell.t = "str" /\ IsNumericText(cell.s) -> Ok(PyInt(DigitsToInt(cell.s)))
      [] cell.t = "str" -> Raise("ValueError")
      [] OTHER -> Ok(NaN)

\* line 115: pd.to_numeric(series, errors='coerce') on the row's cell: a number
\* stays, text that parses becomes its number, anything else NaN
pd_to_numeric(cell) ==
    CASE cell.t = "int" -> Ok(cell)
      [] cell.t = "str" /\ IsNumericText(cell.s) -> Ok(PyInt(DigitsToInt(cell.s)))
      [] OTHER -> Ok(NaN)

\* lines 114-117: one pass of the loop over the numeric columns
NumericStep(df, col) ==
    IF HasColumn(df, col)
    THEN LET r == pd_to_numeric(Column(df, col))
         IN  IF Raised(r) THEN r ELSE Ok(SetColumn(df, col, r.val))
    ELSE Ok(SetColumn(df, col, None))

\* lines 107-111: the loop over the categorical columns, from the i-th on
RECURSIVE CategoricalLoop(_, _)
CategoricalLoop(df, i) ==
    IF i > Len(categorical_cols) THEN df
    ELSE CategoricalLoop(CategoricalStep(df, categorical_cols[i]), i + 1)

\* lines 113-117: the loop over the numeric columns, from the i-th on
RECURSIVE NumericLoop(_, _)
NumericLoop(df, i) ==
    IF i > Len(numeric_cols) THEN Ok(df)
    ELSE LET r == NumericStep(df, numeric_cols[i])
         IN  IF Raised(r) THEN r ELSE NumericLoop(r.val, i + 1)

\* lines 91-119: the feature vector handed to the classifier, or the exception
\* raised on the way
Normalize(req) ==
    LET parsed == get_json(req)
    IN  IF Raised(parsed) THEN parsed
        ELSE LET dict == input_features_dict(parsed.val)
             IN  IF Raised(dict) THEN dict
                 ELSE LET numeric == NumericLoop(CategoricalLoop(DataFrame(dict.val), 1), 1)
                      IN  IF Raised(numeric) THEN numeric
                          ELSE SelectColumns(numeric.val, expected_feature_order)

----------------------------------------------------------------------------
(* The artifacts and the calls made on them, lines 121-122                 *)

Classifier == "classifier"
Encoder == "label_encoder"
NotLoaded == "None"

\* the label encoder's classes, in the order of their codes 0, 1
classes_ == <<"Extrovert", "Introvert">>

\* what one call of the classifier does, as far as this program can tell: it
\* raises, or it returns a code; the code one past the encoder's classes is a
\* code the encoder never saw
ClassifierOutcomes ==
    {[raises |-> TRUE, y |-> 0]} \cup {[raises |-> FALSE, y |-> c] : c \in 0..Len(classes_)}

\* loaded_model.predict(input_df)
model_predict(model, X, out) ==
    IF model = NotLoaded THEN Raise("AttributeError")
    ELSE IF out.raises THEN Raise("ValueError")
    ELSE Ok(out.y)

\* loaded_le_personality.inverse_transform(prediction_encoded)[0]
inverse_transform(le, y) ==
    IF le = NotLoaded THEN Raise("AttributeError")
    ELSE IF y \in 0..(Len(classes_) - 1) THEN Ok(classes_[y + 1])
    ELSE Raise("ValueError")

----------------------------------------------------------------------------
(* predict, lines 86-128                                                   *)

\* line 87 had it tested that both are missing
ModelNotLoaded_both(model, le) == model = NotLoaded /\ le = NotLoaded

\* line 87 had it tested the classifier alone
ModelNotLoaded_classifier_only(model, le) == model = NotLoaded

\* line 87: loaded_model is None or loaded_le_personality is None
ModelNotLoaded(model, le) == model = NotLoaded \/ le = NotLoaded

\* lines 126-128 had the clause been missing: Flask answers an exception the
\* handler lets through with its own 500 page, which is HTML
Uncaught(r) == [status |-> HTTP_INTERNAL_SERVER_ERROR, key |-> "html", text |-> r.exc]

\* lines 126-128: except Exception as e
ExceptException(r) ==
    Json(HTTP_INTERNAL_SERVER_ERROR, "error", InternalErrorPrefix \o r.exc)

\* lines 90-124: the body of the try block; the response it returns or the
\* exception it raises, and the calls it made on the artifacts
TryBlock(model, le, req, out) ==
    LET X == Normalize(req)
    IN  IF Raised(X) THEN [result |-> X, trace |-> NoTrace]
        ELSE LET encoded == model_predict(model, X.val, out)
                 called == [predict_calls |-> 1, X |-> X.val, inverse_calls |-> 0]
             IN  IF Raised(encoded) THEN [result |-> encoded, trace |-> called]
                 ELSE LET label == inverse_transform(le, encoded.val)
                          decoded == [called EXCEPT !.inverse_calls = 1]
                      IN  IF Raised(label) THEN [result |-> label, trace |-> decoded]
                          ELSE [result |-> Ok(Json(HTTP_OK, "prediction", label.val)),
                                trace |-> decoded]

\* lines 86-128: the response of POST /predict and the calls made on the way
PredictHandler(model, le, req, out) ==
    IF ModelNotLoaded(model, le)
    THEN [response |-> Json(HTTP_INTERNAL_SERVER_ERROR, "error", UnavailableMessage),
          trace |-> NoTrace]
    ELSE LET t == TryBlock(model, le, req, out)
         IN  [response |-> IF Raised(t.result) THEN ExceptException(t.result)
                           ELSE t.result.val,
              trace |-> t.trace]

----------------------------------------------------------------------------
(* home, lines 37-82                                                       *)

\* request.url_root of the requests the clients send
Hosts == {"http://localhost:5000/", "https://user-space.hf.space/"}

\* lines 44-82: the page, of which the endpoint is the one part that varies
HomeHandler(url_root) == [status |-> HTTP_OK, key |-> "html", text |-> url_root \o "predict"]

----------------------------------------------------------------------------
(* The module-level code, lines 17-34 and 131-135                          *)

Init ==
    /\ pc = "load_model"
    /\ loader_runs = 0
    /\ loaded_model = NotLoaded
    /\ loaded_le_personality = NotLoaded
    /\ request = NewRequest
    /\ route = ""
    /\ response = NoResponse
    /\ trace = NoTrace

\* lines 25-31 had the except clauses ended the process, as the comment of
\* line 29 considers
AfterLoadFailure_exit == "exited"

\* lines 25-31: both except clauses print and fall through to line 34
AfterLoadFailure == "init_app"

\* lines 20-21: the try block is entered and the classifier loaded
LoadModel ==
    /\ pc = "load_model"
    /\ loader_runs' = loader_runs + 1
    /\ \/ /\ loaded_model' = Classifier
          /\ pc' = "load_encoder"
       \/ /\ pc' = AfterLoadFailure          \* FileNotFoundError
          /\ UNCHANGED loaded_model
       \/ /\ pc' = AfterLoadFailure          \* any other Exception
          /\ UNCHANGED loaded_model
    /\ UNCHANGED <<loaded_le_personality, request, route, response, trace>>

\* lines 22-24: the label encoder is loaded, the classifier being held already
LoadEncoder ==
    /\ pc = "load_encoder"
    /\ \/ /\ loaded_le_personality' = Encoder
          /\ pc' = "init_app"
       \/ /\ pc' = AfterLoadFailure          \* FileNotFoundError
          /\ UNCHANGED loaded_le_personality
       \/ /\ pc' = AfterLoadFailure          \* any other Exception
          /\ UNCHANGED loaded_le_personality
    /\ UNCHANGED <<loader_runs, loaded_model, request, route, response, trace>>

\* lines 34 and 131-135: the app is created and starts to serve
StartServer ==
    /\ pc = "init_app"
    /\ pc' = "serving"
    /\ UNCHANGED <<loader_runs, loaded_model, loaded_le_personality, request, route, response, trace>>

----------------------------------------------------------------------------
(* The clients: one request in flight at a time                            *)

\* the client writes one more pair into the JSON object it will send
ClientAddPair ==
    /\ pc = "serving"
    /\ response = NoResponse
    /\ request.kind = "object"
    /\ Len(request.pairs) < MaxKeys
    /\ \E p \in Pairs : request' = [request EXCEPT !.pairs = Append(@, p)]
    /\ UNCHANGED <<pc, loader_runs, loaded_model, loaded_le_personality, route, response, trace>>

\* the client decides what the body is to be: an empty JSON object to write
\* pairs into, another JSON value, or text that is not JSON
ClientSetKind ==
    /\ pc = "serving"
    /\ response = NoResponse
    /\ request = NewRequest
    /\ \E kind \in BodyKinds \ {"empty"} : request' = [kind |-> kind, pairs |-> <<>>]
    /\ UNCHANGED <<pc, loader_runs, loaded_model, loaded_le_personality, route, response, trace>>

\* the client has its response and starts on the next request
ClientTakeResponse ==
    /\ pc = "serving"
    /\ response # NoResponse
    /\ request' = NewRequest
    /\ route' = ""
    /\ response' = NoResponse
    /\ trace' = NoTrace
    /\ UNCHANGED <<pc, loader_runs, loaded_model, loaded_le_personality>>

----------------------------------------------------------------------------
(* The handlers                                                            *)

\* GET /, lines 37-82
home ==
    /\ pc = "serving"
    /\ response = NoResponse
    /\ request = NewRequest
    /\ \E url_root \in Hosts : response' = HomeHandler(url_root)
    /\ route' = "/"
    /\ UNCHANGED <<pc, loader_runs, loaded_model, loaded_le_personality, request, trace>>

\* what POST /predict answers and calls, for one outcome of the classifier
PredictResponds ==
    /\ pc = "serving"
    /\ response = NoResponse
    /\ \E out \in ClassifierOutcomes :
          LET h == PredictHandler(loaded_model, loaded_le_personality, request, out)
          IN  response' = h.response /\ trace' = h.trace
    /\ route' = "/predict"
    /\ UNCHANGED <<pc, loader_runs, request>>

\* POST /predict had the handler loaded the artifacts itself when it found
\* them missing
predict_lazy_load ==
    /\ PredictResponds
    /\ loaded_model' = Classifier
    /\ loaded_le_personality' = Encoder

\* POST /predict, lines 85-128: the handler assigns neither global
predict ==
    /\ PredictResponds
    /\ UNCHANGED <<loaded_model, loaded_le_personality>>

Next ==
    \/ LoadModel
    \/ LoadEncoder
    \/ StartServer
    \/ ClientAddPair
    \/ ClientSetKind
    \/ ClientTakeResponse
    \/ home
    \/ predict

Spec == Init /\ [][Next]_vars

----------------------------------------------------------------------------
(* Properties                                                              *)

LoaderFinished == pc \in {"init_app", "serving"}
Available == loaded_model = Classifier /\ loaded_le_personality = Encoder
PredictAnswered == route = "/predict" /\ response # NoResponse
HomeAnswered == route = "/" /\ response # NoResponse
Unavailable500 == Json(HTTP_INTERNAL_SERVER_ERROR, "error", UnavailableMessage)
IsPrediction(r) == r.status = HTTP_OK /\ r.key = "prediction" /\ r.text \in Range(classes_)
IsError(r) == r.status = HTTP_INTERNAL_SERVER_ERROR /\ r.key = "error"
RequestKeys == {request.pairs[i].k : i \in 1..Len(request.pairs)}
NoExpectedField == RequestKeys \cap Range(expected_feature_order) = {}

\* the seven fields by name, as the classifier was trained on them
TrainedOrder ==
    << "Time_spent_Alone", "Stage_fear", "Social_event_attendance", "Going_outside",
       "Drained_after_socializing", "Friends_circle_size", "Post_frequency" >>

\* the vector of a request that gives no field: numeric fields missing,
\* categorical fields 0
AllMissing ==
    [i \in 1..Len(TrainedOrder) |->
        [name |-> TrainedOrder[i],
         cell |-> IF TrainedOrder[i] \in {"Stage_fear", "Drained_after_socializing"}
                  THEN PyInt(0) ELSE NaN]]

C2_AnyJsonPredicts ==
    (PredictAnswered /\ Available /\ request.kind \notin {"malformed", "empty"}
        /\ NoExpectedField) =>
        /\ IsPrediction(response)
        /\ trace.X = AllMissing

\* C2 as amended: with both artifacts loaded, a JSON object with none of the 7
\* fields reaches the classifier, once, as five missing numeric fields and two
\* 0s, and is answered 200 with a known label or, when the classifier or the
\* encoder raises, 500 with an error; a JSON body that is not an object is
\* answered 500 with an error and reaches neither.
C2_EmptyObjectReachesClassifier ==
    (PredictAnswered /\ Available /\ NoExpectedField) =>
        /\ request.kind = "object" =>
              /\ trace.predict_calls = 1
              /\ trace.X = AllMissing
              /\ \/ IsPrediction(response) /\ trace.inverse_calls = 1
                 \/ IsError(response)
        /\ request.kind \in {"array", "string", "number", "boolean", "null"} =>
              /\ IsError(response)
              /\ trace.predict_calls = 0 /\ trace.inverse_calls = 0

\* an object with an unexpected key alone, answered with a label
C2_Witness ==
    /\ PredictAnswered /\ Available
    /\ request.kind = "object" /\ RequestKeys = {ExtraKey}
    /\ trace.X = AllMissing
    /\ IsPrediction(response)

\* C3: every POST /predict ends as 200 {"prediction": label} or as
\* 500 {"error": message}, whatever the body and whatever raises, and the
\* process is still serving.
C3_TwoOutcomes ==
    PredictAnswered =>
        /\ IsPrediction(response) \/ IsError(response)
        /\ pc = "serving"

\* a body that is not JSON, answered 500 with the cause, both artifacts loaded
C3_Witness ==
    /\ PredictAnswered /\ Available
    /\ request.kind = "malformed"
    /\ response = Json(HTTP_INTERNAL_SERVER_ERROR, "error", InternalErrorPrefix \o "BadRequest")

YesSpellings == {<<a, b, c>> : a \in {"y", "Y"}, b \in {"e", "E"}, c \in {"s", "S"}}

\* C4: each categorical field reaches the classifier as 1 exactly when the
\* value given is text that spells "yes" in whatever letter case, and as 0
\* otherwise, absent and null included; it is always 0 or 1.
C4_YesNoNormalized ==
    (PredictAnswered /\ trace.predict_calls = 1) =>
        \A col \in {"Stage_fear", "Drained_after_socializing"} :
            LET given == DictGet(request.pairs, col)
                cell == Column(trace.X, col)
            IN  /\ cell \in {PyInt(0), PyInt(1)}
                /\ cell = PyInt(1) <=> (given.t = "str" /\ given.s \in YesSpellings)

\* "YES" given for one field and nothing for the other: 1 and 0
C4_Witness ==
    /\ PredictAnswered /\ trace.predict_calls = 1
    /\ DictGet(request.pairs, "Stage_fear") = PyStr(<<"Y", "E", "S">>)
    /\ "Drained_after_socializing" \notin RequestKeys
    /\ Column(trace.X, "Stage_fear") = PyInt(1)
    /\ Column(trace.X, "Drained_after_socializing") = PyInt(0)

\* C5: once the loader has finished, the classifier and the label encoder are
\* both held or neither is.
C5_AllOrNothing ==
    LoaderFinished => (loaded_model = NotLoaded <=> loaded_le_personality = NotLoaded)

\* C6: a POST /predict calls the classifier or the encoder, or returns a
\* prediction, only when both artifacts are loaded.
C6_InferenceOnlyWhenLoaded ==
    (PredictAnswered /\ ~Available) =>
        /\ trace.predict_calls = 0
        /\ trace.inverse_calls = 0
        /\ response.key # "prediction"

\* a well-formed request answered without inference, the encoder missing
C6_Witness ==
    /\ PredictAnswered
    /\ loaded_model = Classifier /\ loaded_le_personality = NotLoaded
    /\ request.kind = "object" /\ Len(request.pairs) > 0
    /\ trace = NoTrace

\* C7: once serving, no step (no GET /, no POST /predict, failing or not)
\* changes the classifier or the label encoder held.
C7_LoadedStateFrozen ==
    [][pc = "serving" =>
          /\ loaded_model' = loaded_model
          /\ loaded_le_personality' = loaded_le_personality]_vars

\* a failing request answered after startup, with nothing loaded
C7_Witness ==
    /\ PredictAnswered
    /\ loaded_model = NotLoaded /\ loaded_le_personality = NotLoaded
    /\ request.kind = "array"
    /\ IsError(response)

\* C8: the loader runs once and has finished before any request is handled;
\* a load failure leaves the server able to start.
C8_LoadThenServe ==
    /\ loader_runs <= 1
    /\ pc # "load_model" => loader_runs = 1
    /\ (route # "" \/ response # NoResponse) => pc = "serving"
    /\ pc = "serving" => LoaderFinished
    /\ pc \notin {"load_model", "load_encoder"} => (pc = "serving" \/ ENABLED StartServer)

\* GET / answered although the classifier failed to load
C8_Witness ==
    /\ HomeAnswered
    /\ loaded_model = NotLoaded
    /\ loader_runs = 1
    /\ response.status = HTTP_OK

\* the request without its unexpected keys
StripExtras(req) ==
    [req EXCEPT !.pairs = SelectSeq(@, LAMBDA p : p.k \in Range(TrainedOrder))]

\* the request with its pairs in the opposite order
Reversed(req) ==
    [req EXCEPT !.pairs = [i \in 1..Len(@) |-> @[Len(@) + 1 - i]]]

\* C9: the vector the classifier receives has the 7 fields in the trained
\* order, and is the vector of the same request without its unexpected keys
\* and, its keys being distinct, of the same request with the keys in another
\* order.
C9_FixedOrder ==
    (PredictAnswered /\ trace.predict_calls = 1) =>
        /\ [i \in 1..Len(trace.X) |-> trace.X[i].name] = TrainedOrder
        /\ trace.X = Normalize(StripExtras(request)).val
        /\ Cardinality(RequestKeys) = Len(request.pairs) =>
               trace.X = Normalize(Reversed(request)).val

\* an unexpected key sent first, then a field that is not the first one
C9_Witness ==
    /\ PredictAnswered /\ trace.predict_calls = 1
    /\ Len(request.pairs) = 2
    /\ request.pairs[1].k = ExtraKey
    /\ request.pairs[2] = [k |-> "Post_frequency", v |-> PyInt(7)]
    /\ trace.X[Len(TrainedOrder)] = [name |-> "Post_frequency", cell |-> PyInt(7)]

\* what a numeric field is to reach the classifier as
NumericExpected(given) ==
    CASE given.t = "int" -> given
      [] given = PyStr(<<"1", "2">>) -> PyInt(12)
      [] OTHER -> NaN

\* C10: for any JSON object, each numeric field reaches the classifier as
\* missing when absent, null or not a number, and as the number otherwise;
\* the coercion never raises.
C10_NumericCoerced ==
    (PredictAnswered /\ Available /\ request.kind = "object") =>
        /\ trace.predict_calls = 1
        /\ \A col \in Range(numeric_cols) :
              Column(trace.X, col) = NumericExpected(DictGet(request.pairs, col))

\* text that is no number for one field, text that is one for another
C10_Witness ==
    /\ PredictAnswered /\ Available
    /\ DictGet(request.pairs, "Going_outside") = PyStr(<<"N", "o">>)
    /\ DictGet(request.pairs, "Post_frequency") = PyStr(<<"1", "2">>)
    /\ Column(trace.X, "Going_outside") = NaN
    /\ Column(trace.X, "Post_frequency") = PyInt(12)
    /\ IsPrediction(response)

====
